---- MODULE Spec2Model ----
(***************************************************************************)
(* Model of MemoryGameSimulator (src/ideal_player.py): an ideal-memory     *)
(* player of the matching-pairs card game.  One simulator instance is      *)
(* constructed with (rows, cols) and play_game is called on it once, as    *)
(* run_simulations does.                                                   *)
(*                                                                         *)
(* Positions are the code's (row, col) tuples, 0-based.  self.board is a   *)
(* list of rows; self.revealed is a dict, modelled as the sequence of its  *)
(* (key, value) entries in insertion order, because find_known_match       *)
(* depends on the dict's iteration order.                                  *)
(***************************************************************************)
EXTENDS Integers, Sequences, FiniteSets, TLC

\* Largest number of cells (rows * cols) of the boards explored.
MaxCells == 6

\* The defensive turn cap of play_game ("if turn_count > 1000").
TurnCap == 1000

VARIABLES
  rows,               \* self.rows
  cols,               \* self.cols
  board,              \* self.board: list of rows, each a list of symbols
  revealed,           \* self.revealed: dict entries in insertion order
  matched,            \* self.matched: set of positions
  moves,              \* self.moves
  perfect_matches,    \* self.perfect_matches
  exploratory_moves,  \* self.exploratory_moves
  turn_count,         \* local turn_count of play_game
  pc,                 \* where play_game is: constructed, playing, done, capped, error
  result,             \* <<>> until play_game returns, then <<returned value>>
  makeMoveCalls,      \* history: number of calls of make_move
  lastMove            \* history: arguments of the latest make_move call

vars == <<rows, cols, board, revealed, matched, moves, perfect_matches,
          exploratory_moves, turn_count, pc, result, makeMoveCalls, lastMove>>

\* Python's None (find_known_match's "not found"): falsy, equal to no position.
None == <<>>

\* self.total_cards = rows * cols
total_cards == rows * cols

\* Variant of total_pairs that rounds up instead of down.
total_pairs_ceil == (rows * cols + 1) \div 2

\* self.total_pairs = self.total_cards // 2
total_pairs == total_cards \div 2

\* get_position: the position tuple of (row, col)
get_position(row, col) == <<row, col>>

\* is_matched
is_matched(pos) == pos \in matched

\* get_symbol: self.board[row][col]
get_symbol(pos) == board[pos[1] + 1][pos[2] + 1]

\* range(n) as a list: [0, 1, ..., n-1]
range(n) == [i \in 1..n |-> i - 1]

\* symbols + symbols of setup_board
pairs_list == range(total_pairs) \o range(total_pairs)

\* random.shuffle: every reordering of the list by a permutation of its indices
shuffle(lst) ==
  { [i \in 1..Len(lst) |-> lst[perm[i]]] : perm \in Permutations(1..Len(lst)) }

\* The rows that setup_board's nested loop appends to self.board before
\* pairs[idx] runs past the end of the list (all of them when it does not).
completed_rows(p) ==
  IF rows * cols <= Len(p) THEN rows ELSE Len(p) \div cols

\* Variant of layout that restarts idx at every row.
layout_reset(p) ==
  [i \in 1..completed_rows(p) |-> [j \in 1..cols |-> p[j]]]

\* The conversion of the flat list to the 2D board, row-major.
layout(p) ==
  [i \in 1..completed_rows(p) |-> [j \in 1..cols |-> p[(i - 1) * cols + j]]]

\* dict membership: pos in self.revealed
in_revealed(pos) == \E i \in 1..Len(revealed) : revealed[i].pos = pos

\* dict lookup: self.revealed[pos]
revealed_at(pos) ==
  LET i == CHOOSE k \in 1..Len(revealed) : revealed[k].pos = pos
  IN  revealed[i].sym

\* dict assignment d[pos] = sym: an existing key keeps its place in the
\* iteration order and takes the new value, a new key goes last.
dict_set(d, pos, sym) ==
  IF \E i \in 1..Len(d) : d[i].pos = pos
  THEN [i \in 1..Len(d) |-> IF d[i].pos = pos THEN [pos |-> pos, sym |-> sym] ELSE d[i]]
  ELSE Append(d, [pos |-> pos, sym |-> sym])

\* Variant of set_add that assigns the set instead of adding to it.
set_add_replace(s, pos) == {pos}

\* set.add
set_add(s, pos) == s \cup {pos}

\* Variant of find_known_match that forgets to compare the symbol.
find_known_match_any(symbol) ==
  LET positions == SelectSeq(revealed, LAMBDA e : e.pos \notin matched)
  IN  IF positions # <<>> THEN positions[1].pos ELSE None

\* find_known_match: the first entry of self.revealed, in dict order, that
\* holds the symbol and is not matched; None when there is none.
find_known_match(symbol) ==
  LET positions == SelectSeq(revealed,
                     LAMBDA e : e.sym = symbol /\ e.pos \notin matched)
  IN  IF positions # <<>> THEN positions[1].pos ELSE None

\* Variant of get_unmatched_positions that walks the board column by column.
get_unmatched_positions_colmajor ==
  LET all == [k \in 1..(rows * cols) |->
                get_position((k - 1) % rows, (k - 1) \div rows)]
  IN  SelectSeq(all, LAMBDA pos : pos \notin matched)

\* get_unmatched_positions: unmatched positions in row-major order
get_unmatched_positions ==
  LET all == [k \in 1..(rows * cols) |->
                get_position((k - 1) \div cols, (k - 1) % cols)]
  IN  SelectSeq(all, LAMBDA pos : pos \notin matched)

\* Variant of the test that forgets "match_pos != pos".
is_known_pair_noself(pos, match_pos) == match_pos # None

\* The test of play_turn's scan: "if match_pos and match_pos != pos"
is_known_pair(pos, match_pos) == match_pos # None /\ match_pos # pos

\* Variant of the scan that gives up after the first unmatched position in
\* memory instead of continuing with the next one.
known_match_scan_first(unmatched) ==
  LET seen == SelectSeq(unmatched, LAMBDA pos : in_revealed(pos))
  IN  IF seen # <<>>
         /\ is_known_pair(seen[1], find_known_match(revealed_at(seen[1])))
      THEN <<seen[1], find_known_match(revealed_at(seen[1]))>>
      ELSE None

\* The scan of play_turn for a known match: the first unmatched position, in
\* row-major order, that is in memory and whose find_known_match result
\* passes the test; <<pos, match_pos>>, or None when the loop falls through.
known_match_scan(unmatched) ==
  LET hits == SelectSeq(unmatched, LAMBDA pos :
                in_revealed(pos)
                /\ is_known_pair(pos, find_known_match(revealed_at(pos))))
  IN  IF hits # <<>>
      THEN <<hits[1], find_known_match(revealed_at(hits[1]))>>
      ELSE None

\* play_turn's decision: which branch is taken and with which positions.
\*   over     : len(matched) == total_cards, returns False
\*   known    : make_move(pos, match_pos, True)
\*   explore2 : make_move(unrevealed[0], unrevealed[1], False)
\*   explore1 : make_move(unrevealed[0], first revealed unmatched, False)
\*   raise    : the [0] of the explore1 branch on an empty list (IndexError)
\*   none     : the final return False
play_turn ==
  LET unmatched  == get_unmatched_positions
      known      == known_match_scan(unmatched)
      unrevealed == SelectSeq(unmatched, LAMBDA pos : ~in_revealed(pos))
      seen       == SelectSeq(unmatched, LAMBDA pos : in_revealed(pos))
      Choice(k, p1, p2) == [kind |-> k, pos1 |-> p1, pos2 |-> p2]
  IN  IF Cardinality(matched) = total_cards THEN Choice("over", None, None)
      ELSE IF known # None THEN Choice("known", known[1], known[2])
      ELSE IF Len(unrevealed) >= 2
             THEN Choice("explore2", unrevealed[1], unrevealed[2])
      ELSE IF Len(unrevealed) = 1
             THEN IF seen # <<>>
                    THEN Choice("explore1", unrevealed[1], seen[1])
                    ELSE Choice("raise", unrevealed[1], None)
      ELSE Choice("none", None, None)

\* Variants of make_move:
\*   swapped : records symbol2 at pos1 and symbol1 at pos2
\*   forget  : drops a matched pair from memory
\*   half    : adds only pos1 to matched
\*   first   : records pos1 in memory but not pos2
\*   explore : counts every turn that is not a known match in exploratory_moves
\*   perfect : counts every match in perfect_matches
make_move_variant(pos1, pos2, is_known_match, variant) ==
  LET symbol1 == get_symbol(pos1)
      symbol2 == get_symbol(pos2)
      rev     == IF variant = "swapped"
                   THEN dict_set(dict_set(revealed, pos1, symbol2), pos2, symbol1)
                 ELSE IF variant = "first"
                   THEN dict_set(revealed, pos1, symbol1)
                   ELSE dict_set(dict_set(revealed, pos1, symbol1), pos2, symbol2)
  IN  /\ revealed' = IF variant = "forget" /\ symbol1 = symbol2
                       THEN SelectSeq(rev, LAMBDA e : e.pos \notin {pos1, pos2})
                       ELSE rev
      /\ IF symbol1 = symbol2
           THEN /\ matched' = IF variant = "half"
                                THEN set_add(matched, pos1)
                                ELSE set_add(set_add(matched, pos1), pos2)
                /\ perfect_matches' =
                     IF is_known_match \/ variant = "perfect"
                       THEN perfect_matches + 1 ELSE perfect_matches
                /\ exploratory_moves' =
                     IF variant = "explore" /\ ~is_known_match
                       THEN exploratory_moves + 1 ELSE exploratory_moves
                /\ UNCHANGED moves
           ELSE /\ moves' = moves + 1
                /\ exploratory_moves' = exploratory_moves + 1
                /\ UNCHANGED <<matched, perfect_matches>>
      /\ makeMoveCalls' = makeMoveCalls + 1
      /\ lastMove' = [n |-> makeMoveCalls + 1, pos1 |-> pos1, pos2 |-> pos2,
                      is_known_match |-> is_known_match]

make_move_first(pos1, pos2, is_known_match) ==
  make_move_variant(pos1, pos2, is_known_match, "first")

make_move_explore(pos1, pos2, is_known_match) ==
  make_move_variant(pos1, pos2, is_known_match, "explore")

make_move_perfect(pos1, pos2, is_known_match) ==
  make_move_variant(pos1, pos2, is_known_match, "perfect")

make_move_swapped(pos1, pos2, is_known_match) ==
  make_move_variant(pos1, pos2, is_known_match, "swapped")

make_move_forget(pos1, pos2, is_known_match) ==
  make_move_variant(pos1, pos2, is_known_match, "forget")

make_move_half(pos1, pos2, is_known_match) ==
  make_move_variant(pos1, pos2, is_known_match, "half")

\* make_move: flip two cards, remember them, record a match or a wrong guess.
make_move(pos1, pos2, is_known_match) ==
  LET symbol1 == get_symbol(pos1)
      symbol2 == get_symbol(pos2)
  IN  /\ revealed' = dict_set(dict_set(revealed, pos1, symbol1), pos2, symbol2)
      /\ IF symbol1 = symbol2
           THEN /\ matched' = set_add(set_add(matched, pos1), pos2)
                /\ perfect_matches' =
                     IF is_known_match THEN perfect_matches + 1 ELSE perfect_matches
                /\ UNCHANGED <<moves, exploratory_moves>>
           ELSE /\ moves' = moves + 1
                /\ exploratory_moves' = exploratory_moves + 1
                /\ UNCHANGED <<matched, perfect_matches>>
      /\ makeMoveCalls' = makeMoveCalls + 1
      /\ lastMove' = [n |-> makeMoveCalls + 1, pos1 |-> pos1, pos2 |-> pos2,
                      is_known_match |-> is_known_match]

\* MemoryGameSimulator(rows, cols): the state after __init__.
Init ==
  /\ rows \in 1..MaxCells
  /\ cols \in 1..MaxCells
  /\ rows * cols <= MaxCells
  /\ board = <<>>
  /\ revealed = <<>>
  /\ matched = {}
  /\ moves = 0
  /\ perfect_matches = 0
  /\ exploratory_moves = 0
  /\ turn_count = 0
  /\ pc = "constructed"
  /\ result = <<>>
  /\ makeMoveCalls = 0
  /\ lastMove = [n |-> 0, pos1 |-> None, pos2 |-> None, is_known_match |-> FALSE]

\* play_game up to the loop: setup_board() and turn_count = 0.  setup_board
\* raises IndexError when the shuffled list is shorter than the board.
SetupBoard ==
  /\ pc = "constructed"
  /\ \E p \in shuffle(pairs_list) :
       /\ board' = layout(p)
       /\ pc' = IF rows * cols <= Len(p) THEN "playing" ELSE "error"
  /\ turn_count' = 0
  /\ UNCHANGED <<rows, cols, revealed, matched, moves, perfect_matches,
                 exploratory_moves, result, makeMoveCalls, lastMove>>

\* One evaluation of "while self.play_turn():" with the loop body, and the
\* return of self.moves when the loop ends.
PlayTurn ==
  /\ pc = "playing"
  /\ LET c == play_turn IN
       CASE c.kind \in {"over", "none"} ->
              /\ pc' = "done"
              /\ result' = <<moves>>
              /\ UNCHANGED <<revealed, matched, moves, perfect_matches,
                             exploratory_moves, turn_count, makeMoveCalls, lastMove>>
         [] c.kind = "raise" ->
              /\ pc' = "error"
              /\ UNCHANGED <<revealed, matched, moves, perfect_matches,
                             exploratory_moves, turn_count, result,
                             makeMoveCalls, lastMove>>
         [] OTHER ->
              /\ make_move(c.pos1, c.pos2, c.kind = "known")
              /\ turn_count' = turn_count + 1
              /\ IF turn_count + 1 > TurnCap
                   THEN pc' = "capped" /\ result' = <<moves'>>
                   ELSE pc' = "playing" /\ result' = result
  /\ UNCHANGED <<rows, cols, board>>

Next == SetupBoard \/ PlayTurn

Spec == Init /\ [][Next]_vars

\* A further call of play_game on a simulator whose previous call has
\* returned: setup_board() and turn_count = 0 again; play_game assigns nothing
\* else before the loop.
PlayGameAgain ==
  /\ pc = "done"
  /\ \E p \in shuffle(pairs_list) :
       /\ board' = layout(p)
       /\ pc' = IF rows * cols <= Len(p) THEN "playing" ELSE "error"
  /\ turn_count' = 0
  /\ result' = <<>>
  /\ UNCHANGED <<rows, cols, revealed, matched, moves, perfect_matches,
                 exploratory_moves, makeMoveCalls, lastMove>>

NextReplay == SetupBoard \/ PlayTurn \/ PlayGameAgain

\* A simulator on which play_game may be called any number of times.
SpecReplay == Init /\ [][NextReplay]_vars

\* play_game is straight-line sequential code: it keeps running until it
\* returns or raises.
FairSpec == Spec /\ WF_vars(Next)

(***************************************************************************)
(* Vocabulary of the properties                                            *)
(***************************************************************************)

\* rows * cols is even
EvenBoard == (rows * cols) % 2 = 0

\* rows * cols is even exactly when one of its factors is (the form used
\* under a temporal operator)
EvenDims == rows % 2 = 0 \/ cols % 2 = 0

\* every position of the board
AllPositions == {<<r, c>> : r \in 0..(rows - 1), c \in 0..(cols - 1)}

\* setup_board has succeeded: a game is being played or has been played
InGame == pc \in {"playing", "done", "capped"}

\* the keys of a dict
Keys(d) == {d[i].pos : i \in 1..Len(d)}

\* memory holds two distinct unmatched positions with the same symbol
KnownPairExists ==
  \E i, j \in 1..Len(revealed) :
     /\ revealed[i].pos # revealed[j].pos
     /\ revealed[i].sym = revealed[j].sym
     /\ revealed[i].pos \notin matched
     /\ revealed[j].pos \notin matched

\* the step is a call of make_move
IsTurn == makeMoveCalls' = makeMoveCalls + 1

C2_Original ==
  (rows = 2 /\ cols = 2 /\ pc = "done") => (turn_count <= 2 /\ moves = 0)

(***************************************************************************)
(* C2 amended: on a 2x2 board every game completes in at most 4 turns with *)
(* moves at most 2; it takes 2 turns with moves = 0 when the two cells of  *)
(* the first row hold the same symbol, 4 turns with moves = 2 otherwise.   *)
(***************************************************************************)
C2_Amended ==
  (rows = 2 /\ cols = 2 /\ InGame) =>
     /\ turn_count <= 4
     /\ moves <= 2
     /\ pc # "capped"
     /\ pc = "done" =>
          IF board[1][1] = board[1][2]
            THEN turn_count = 2 /\ moves = 0
            ELSE turn_count = 4 /\ moves = 2

\* a finished 2x2 game with two wrong guesses
C2_Witness ==
  rows = 2 /\ cols = 2 /\ pc = "done" /\ moves = 2 /\ turn_count = 4

(***************************************************************************)
(* C3: every make_move called with is_known_match = True is on two         *)
(* distinct unmatched positions holding equal symbols; it adds both to     *)
(* matched, increments perfect_matches and leaves moves alone.             *)
(***************************************************************************)
C3_KnownMatchIsAMatch ==
  [][ (IsTurn /\ lastMove'.is_known_match) =>
        LET p1 == lastMove'.pos1
            p2 == lastMove'.pos2
        IN  /\ p1 # p2
            /\ p1 \in AllPositions /\ p2 \in AllPositions
            /\ p1 \notin matched /\ p2 \notin matched
            /\ get_symbol(p1) = get_symbol(p2)
            /\ matched' = matched \cup {p1, p2}
            /\ perfect_matches' = perfect_matches + 1
            /\ moves' = moves
            /\ exploratory_moves' = exploratory_moves ]_vars

\* a known match has just been played, after at least one wrong guess
C3_Witness ==
  /\ lastMove.is_known_match /\ perfect_matches >= 1 /\ moves >= 1
  /\ lastMove.pos1 \in matched /\ lastMove.pos2 \in matched

(***************************************************************************)
(* C4: on an even board, the board built by setup_board has rows rows of   *)
(* cols cells and holds each symbol of 0..total_pairs-1 exactly twice.     *)
(***************************************************************************)
C4_BoardHasEachSymbolTwice ==
  (EvenBoard /\ pc # "constructed") =>
     /\ Len(board) = rows
     /\ \A i \in 1..rows : Len(board[i]) = cols
     /\ \A pos \in AllPositions : get_symbol(pos) \in 0..(total_pairs - 1)
     /\ \A s \in 0..(total_pairs - 1) :
          Cardinality({pos \in AllPositions : get_symbol(pos) = s}) = 2

\* a freshly shuffled board of several rows that is not in the unshuffled order
C4_Witness ==
  /\ pc = "playing" /\ makeMoveCalls = 0 /\ rows >= 2 /\ cols >= 2
  /\ board[1][1] # 0 /\ board[2][1] # board[1][1]

(***************************************************************************)
(* C5 as stated: when the game has ended, the number of turns executed     *)
(* (calls of make_move) equals moves + perfect_matches.                    *)
(***************************************************************************)
C5_TurnsAreMovesPlusPerfect ==
  pc = "done" => makeMoveCalls = moves + perfect_matches

(***************************************************************************)
(* C6: no step removes a position from matched or an entry from memory:    *)
(* matched and memory only grow, and so do their sizes.                    *)
(***************************************************************************)
C6_MatchedAndMemoryGrow ==
  [][ /\ matched \subseteq matched'
      /\ \A i \in 1..Len(revealed) :
           \E j \in 1..Len(revealed') : revealed'[j] = revealed[i]
      /\ Cardinality(matched) <= Cardinality(matched')
      /\ Cardinality(Keys(revealed)) <= Cardinality(Keys(revealed')) ]_vars

\* several turns in: memory holds matched positions and unmatched ones
C6_Witness ==
  /\ makeMoveCalls >= 2 /\ matched # {}
  /\ matched \subseteq Keys(revealed) /\ Keys(revealed) # matched

(***************************************************************************)
(* C7: every entry of memory records the board's symbol at its position,   *)
(* and a position has one entry only, so revealing it again leaves the     *)
(* recorded symbol as it was.                                              *)
(***************************************************************************)
C7_MemoryAgreesWithBoard ==
  /\ \A i \in 1..Len(revealed) : revealed[i].sym = get_symbol(revealed[i].pos)
  /\ \A i, j \in 1..Len(revealed) : revealed[i].pos = revealed[j].pos => i = j

\* two positions already in memory have just been revealed again
C7_Witness ==
  /\ lastMove.is_known_match
  /\ Len(revealed) = total_cards
  /\ revealed_at(lastMove.pos1) = get_symbol(lastMove.pos1)
  /\ revealed_at(lastMove.pos2) = get_symbol(lastMove.pos2)

(***************************************************************************)
(* C8: during and after a game, |matched| is even and at most total_cards, *)
(* every matched position is in memory, and a position is matched iff the  *)
(* other position holding its symbol is matched.                           *)
(***************************************************************************)
C8_MatchedIsPairs ==
  InGame =>
     /\ Cardinality(matched) % 2 = 0
     /\ Cardinality(matched) <= total_cards
     /\ matched \subseteq AllPositions
     /\ \A pos \in matched : in_revealed(pos)
     /\ \A p, q \in AllPositions :
          (p # q /\ get_symbol(p) = get_symbol(q)) => (p \in matched <=> q \in matched)

\* a game under way with some pairs matched and some not
C8_Witness ==
  /\ pc = "playing" /\ Cardinality(matched) >= 2
  /\ Cardinality(matched) < total_cards /\ moves >= 1

(***************************************************************************)
(* C9: on a board with an odd number of cells play_game raises before any  *)
(* turn: nothing is revealed or matched, no counter changes, nothing is    *)
(* returned.                                                               *)
(***************************************************************************)
C9_OddBoardFailsFast ==
  (~EvenBoard /\ pc # "constructed") =>
     /\ pc = "error"
     /\ revealed = <<>>
     /\ matched = {}
     /\ moves = 0 /\ perfect_matches = 0 /\ exploratory_moves = 0
     /\ turn_count = 0 /\ makeMoveCalls = 0
     /\ result = <<>>

\* play_game has raised on an odd board of more than one cell
C9_Witness ==
  ~EvenBoard /\ total_cards >= 3 /\ pc = "error" /\ result = <<>>

(***************************************************************************)
(* C10: when a turn starts with two distinct unmatched positions of the    *)
(* same symbol in memory, the turn is a known match on two positions that  *)
(* were in memory; a turn that explores starts with no such pair.          *)
(***************************************************************************)
C10_KnownPairIsClaimed ==
  [][ /\ (pc = "playing" /\ KnownPairExists) =>
           /\ IsTurn
           /\ lastMove'.is_known_match
           /\ lastMove'.pos1 \in Keys(revealed)
           /\ lastMove'.pos2 \in Keys(revealed)
      /\ (IsTurn /\ ~lastMove'.is_known_match) => ~KnownPairExists ]_vars

\* a known match has been played while a second known pair is still waiting
C10_Witness ==
  pc = "playing" /\ lastMove.is_known_match /\ KnownPairExists

\* rank of a position in row-major order
Rank(pos) == pos[1] * cols + pos[2]

\* the unmatched positions of memory whose symbol is also held by another
\* unmatched position of memory
PairedInMemory ==
  {p \in Keys(revealed) \ matched :
     \E q \in Keys(revealed) \ matched : q # p /\ revealed_at(q) = revealed_at(p)}

\* the row-major-first element of a non-empty set of positions
RowMajorFirst(S) == CHOOSE p \in S : \A q \in S : Rank(p) <= Rank(q)

(***************************************************************************)
(* C11 as stated: a known-match turn claims the pair of the row-major-     *)
(* first unmatched position of memory that has another unmatched position  *)
(* of memory with its symbol: that position is one of the two flipped, the *)
(* other one holds the same symbol.                                        *)
(***************************************************************************)
C11_FirstKnownPairIsClaimed ==
  [][ (IsTurn /\ lastMove'.is_known_match) =>
        LET first == RowMajorFirst(PairedInMemory)
            p1    == lastMove'.pos1
            p2    == lastMove'.pos2
        IN  /\ PairedInMemory # {}
            /\ first \in {p1, p2}
            /\ p1 # p2
            /\ revealed_at(p1) = revealed_at(p2) ]_vars

(***************************************************************************)
(* C12: an exploration turn flips the two row-major-smallest positions     *)
(* that are not in memory, smaller first, and after every step the         *)
(* positions of memory are a row-major prefix of the board.                *)
(***************************************************************************)
C12_ExploresRowMajorPrefix ==
  [][ /\ (IsTurn /\ ~lastMove'.is_known_match) =>
           LET unseen == AllPositions \ Keys(revealed)
               p1     == lastMove'.pos1
               p2     == lastMove'.pos2
           IN  /\ Cardinality(unseen) >= 2
               /\ p1 = RowMajorFirst(unseen)
               /\ p2 = RowMajorFirst(unseen \ {p1})
      /\ \A p \in Keys(revealed') : \A q \in AllPositions :
           Rank(q) < Rank(p) => q \in Keys(revealed') ]_vars

\* on a board of several rows and columns, an exploration turn has just
\* flipped the last cell of one row and the first cell of the next
C12_Witness ==
  /\ rows >= 2 /\ cols >= 2 /\ makeMoveCalls >= 2
  /\ ~lastMove.is_known_match
  /\ lastMove.pos1[1] # lastMove.pos2[1]
  /\ Keys(revealed) # AllPositions

(***************************************************************************)
(* C13: no turn flips two positions that were both in memory and hold      *)
(* different symbols; a step that increments moves is a turn that flips at *)
(* least one position that was not in memory.                              *)
(***************************************************************************)
C13_WrongGuessRevealsNewCard ==
  [][ /\ IsTurn =>
           ~ /\ lastMove'.pos1 \in Keys(revealed)
             /\ lastMove'.pos2 \in Keys(revealed)
             /\ get_symbol(lastMove'.pos1) # get_symbol(lastMove'.pos2)
      /\ moves' # moves =>
           /\ IsTurn
           /\ moves' = moves + 1
           /\ (lastMove'.pos1 \notin Keys(revealed)
                 \/ lastMove'.pos2 \notin Keys(revealed)) ]_vars

\* a wrong guess has been made while memory already held unmatched cards
C13_Witness ==
  /\ moves >= 2 /\ ~lastMove.is_known_match
  /\ get_symbol(lastMove.pos1) # get_symbol(lastMove.pos2)
  /\ Len(revealed) >= 4

(***************************************************************************)
(* C14: on an even board, while the game is not complete play_turn yields  *)
(* a pair (it neither reaches its final return False nor raises), so it    *)
(* returns False only when |matched| = total_cards, and play_game returns  *)
(* only with every position matched.                                       *)
(***************************************************************************)
C14_NoMoveOnlyWhenComplete ==
  (EvenBoard /\ InGame) =>
     /\ (pc = "playing" /\ Cardinality(matched) # total_cards) =>
           play_turn.kind \in {"known", "explore2", "explore1"}
     /\ (pc = "playing" /\ play_turn.kind \in {"over", "none"}) =>
           Cardinality(matched) = total_cards
     /\ pc = "done" => Cardinality(matched) = total_cards

\* the game is complete and play_turn is about to return False
C14_Witness ==
  /\ pc = "playing" /\ total_cards >= 4
  /\ Cardinality(matched) = total_cards
  /\ play_turn.kind = "over"

(***************************************************************************)
(* C16 as stated: every call of play_game, a second call on the same       *)
(* simulator included, starts its game (the loop is entered with           *)
(* turn_count = 0) from empty memory, an empty matched set and zeroed      *)
(* counters, and the value it returns counts the wrong guesses of that     *)
(* call's turns alone.                                                     *)
(***************************************************************************)
C16_EveryGameStartsFresh ==
  /\ (pc = "playing" /\ turn_count = 0) =>
        /\ revealed = <<>>
        /\ matched = {}
        /\ moves = 0 /\ perfect_matches = 0 /\ exploratory_moves = 0
  /\ (pc = "done" /\ turn_count = 0) => result = <<0>>

(***************************************************************************)
(* C17: exploratory_moves = moves in every state; the two counters change  *)
(* only together, by one, on a turn whose two symbols differ, and a turn   *)
(* that produces a match changes neither.                                  *)
(***************************************************************************)
C17_ExploratoryEqualsMoves ==
  /\ [](exploratory_moves = moves)
  /\ [][ /\ (moves' # moves \/ exploratory_moves' # exploratory_moves) =>
              /\ IsTurn
              /\ get_symbol(lastMove'.pos1) # get_symbol(lastMove'.pos2)
              /\ moves' = moves + 1
              /\ exploratory_moves' = exploratory_moves + 1
              /\ matched' = matched
         /\ (IsTurn /\ get_symbol(lastMove'.pos1) = get_symbol(lastMove'.pos2)) =>
              /\ moves' = moves
              /\ exploratory_moves' = exploratory_moves ]_vars

\* a lucky match and a wrong guess have both happened
C17_Witness ==
  /\ exploratory_moves >= 1 /\ moves >= 1
  /\ Cardinality(matched) > 2 * perfect_matches

(***************************************************************************)
(* C18: when a game on an even board has completed, moves equals           *)
(* perfect_matches, the turns executed number total_pairs + moves, and     *)
(* the turns that were not known matches number total_pairs.               *)
(***************************************************************************)
C18_CompletedGameCounts ==
  (EvenBoard /\ pc = "done") =>
     /\ moves = perfect_matches
     /\ makeMoveCalls = total_pairs + moves
     /\ makeMoveCalls - perfect_matches = total_pairs
     /\ turn_count = makeMoveCalls

\* a completed game with lucky matches, wrong guesses and known matches
C18_Witness ==
  /\ pc = "done" /\ total_pairs >= 3
  /\ moves >= 1 /\ moves < total_pairs /\ perfect_matches = moves

(***************************************************************************)
(* C19: on an even board the number of positions outside memory is even in *)
(* every state, and play_turn never takes the branch for exactly one       *)
(* unrevealed position.                                                    *)
(***************************************************************************)
C19_UnrevealedCountIsEven ==
  EvenBoard =>
     /\ (total_cards - Cardinality(Keys(revealed))) % 2 = 0
     /\ Cardinality(AllPositions \ Keys(revealed)) % 2 = 0
     /\ pc = "playing" => play_turn.kind \notin {"explore1", "raise"}

\* two positions are left outside memory and no known pair is waiting
C19_Witness ==
  /\ pc = "playing" /\ total_cards >= 4
  /\ Cardinality(AllPositions \ Keys(revealed)) = 2
  /\ ~KnownPairExists
  /\ play_turn.kind = "explore2"

(***************************************************************************)
(* C20: on an even board moves never exceeds total_pairs; the witness      *)
(* shows a game that attains the bound.                                    *)
(***************************************************************************)
C20_MovesAtMostPairs ==
  (EvenBoard /\ InGame) => (moves <= total_pairs /\ 2 * moves <= total_cards)

\* a completed game in which no exploration turn matched
C20_Witness ==
  /\ pc = "done" /\ total_pairs >= 2
  /\ moves = total_pairs /\ perfect_matches = total_pairs

====
